---- MODULE Spec2Model ----
(***************************************************************************)
(* Model of src/src/usb_interface.c: the bulk-endpoint frame assembler     *)
(* (vendor_task) and the control-endpoint command dispatcher               *)
(* (tud_vendor_control_xfer_cb).                                           *)
(***************************************************************************)
EXTENDS Integers, Naturals, Sequences, FiniteSets, TLC

(***************************************************************************)
(* Program constants                                                       *)
(***************************************************************************)
FRAME_SIZE == 8192

SYNC_TIMEOUT_MS == 4

\* sizeof(buffer), the most one tud_vendor_read call returns
BUFFER_SIZE == 64

(***************************************************************************)
(* Bounds of the model                                                     *)
(***************************************************************************)
\* milliseconds of clock the model lets pass in one behaviour
MaxUptime == 7

\* bytes the host sends past FRAME_SIZE within one run of chunks
MaxOverrun == 128

\* chunks the host may have waiting in the transport
MaxBacklog == 3

\* what tud_vendor_read returns in a poll that found data available
ReadCounts == {0, 48, BUFFER_SIZE}

(***************************************************************************)
(* `unsigned' is 32 bits wide on the target.  A value is kept as its two   *)
(* 16-bit halves <<hi, lo>>, since 2^32 is no TLC integer.                 *)
(***************************************************************************)
HALF == 2^16

U32(n) == <<(n \div HALF) % HALF, n % HALF>>

U32Inc(a) ==
    IF a[2] = HALF - 1 THEN <<(a[1] + 1) % HALF, 0>> ELSE <<a[1], a[2] + 1>>

\* a - b in unsigned arithmetic (modulo 2^32)
U32Sub(a, b) ==
    LET lo == a[2] - b[2]
        borrow == IF lo < 0 THEN 1 ELSE 0
    IN  <<(a[1] - b[1] - borrow) % HALF, lo % HALF>>

\* a > n for an unsigned a and a constant 0 <= n < 2^16
U32Gt(a, n) == a[1] > 0 \/ a[2] > n

\* a + n in unsigned arithmetic, for a constant 0 <= n < 2^16
U32Add(a, n) ==
    LET lo == a[2] + n
    IN  <<(a[1] + lo \div HALF) % HALF, lo % HALF>>

\* a < b as unsigned numbers
U32Less(a, b) == a[1] < b[1] \/ (a[1] = b[1] /\ a[2] < b[2])

\* the values millis() may have when the device starts polling
StartTimes == {<<0, 0>>, <<HALF - 1, HALF - 2>>}

VARIABLES
    byte_index,         \* static unsigned byte_index
    last_packet_time,   \* static unsigned last_packet_time
    ms,                 \* the counter millis() returns
    uptime,             \* milliseconds passed since Init (bounds the model)
    idle,               \* milliseconds since last_packet_time was the time
    run_bytes,          \* bytes the reads returned since the last resync
    run_written,        \* bytes handed to send_fb since the last resync
    run_firsts,         \* send_fb calls with is_first since the last resync
    run_origin,         \* what the current run began from
    fb_cursor,          \* where the sink puts the next byte it is given
    backlog,            \* chunks waiting in the transport, where tracked
    poll                \* what the vendor_task call just made did

fvars == <<byte_index, last_packet_time, ms, uptime, idle,
           run_bytes, run_written, run_firsts, run_origin, fb_cursor,
           backlog, poll>>

NoPoll ==
    [kind |-> "none", before |-> 0, gap |-> <<0, 0>>, sync |-> FALSE,
     read |-> 0, sent |-> FALSE, is_first |-> FALSE, count |-> 0,
     offset |-> 0, src |-> 0, dst |-> 0, reads |-> 0, wrapped |-> FALSE]

(***************************************************************************)
(* vendor_task, piece by piece                                             *)
(***************************************************************************)
\* the test of line 43 written with >= in place of >
SyncExpiredAtTimeout(now, last) ==
    U32Gt(U32Sub(now, last), SYNC_TIMEOUT_MS - 1)

\* the test of line 43 written as now > last_packet_time + SYNC_TIMEOUT_MS
SyncExpiredByCompare(now, last) ==
    U32Less(U32Add(last, SYNC_TIMEOUT_MS), now)

\* line 43: (now - last_packet_time) > SYNC_TIMEOUT_MS
SyncExpired(now, last) == U32Gt(U32Sub(now, last), SYNC_TIMEOUT_MS)

\* lines 43-45 without the assignment of line 44
ResetIndexNever(idx, expired) == idx

\* lines 43-45 starting over also when the frame is full
ResetIndexAtFull(idx, expired) ==
    IF expired \/ idx = FRAME_SIZE THEN 0 ELSE idx

\* lines 43-45: byte_index after the synchronization test
ResetIndex(idx, expired) == IF expired THEN 0 ELSE idx

\* line 63 written with <= in place of <
CanWriteAtEnd(idx) == idx <= FRAME_SIZE

\* line 63: only write if the frame has not overflown
CanWrite(idx) == idx < FRAME_SIZE

\* lines 65-67 without the clamp
ClampCountNone(count, idx) == count

\* lines 65-67: how much can actually be written
ClampCount(count, idx) ==
    LET remaining == FRAME_SIZE - idx
    IN  IF count > remaining THEN remaining ELSE count

\* line 68 with "within the first packet" in place of "at offset 0"
IsFirstPacket(idx) == idx < BUFFER_SIZE

\* line 68 with the flag never set
IsFirstNever(idx) == FALSE

\* line 68: the first argument of send_fb
IsFirst(idx) == idx = 0

\* line 69 advancing by the size of the buffer
AdvanceIndexByBuffer(idx, count) == idx + BUFFER_SIZE

\* line 69: byte_index += count
AdvanceIndex(idx, count) == idx + count

\* line 47 moved below the test of line 55
StampTimeIfRead(now, last, nread) == IF nread > 0 THEN now ELSE last

\* line 47: last_packet_time = now, before the read
StampTime(now, last, nread) == now

\* line 54 inside a loop that reads until the transport is empty
ReadCallsUntilEmpty(avail) == avail

\* line 54: the calls of tud_vendor_read in a poll that found data, with
\* avail chunks waiting: one call, outside any loop
ReadCalls(avail) == 1

\* send_fb(is_first, count, data): the sink starts over at an is_first write
\* and appends count bytes
SinkCursorAfter(cursor, is_first, count) ==
    (IF is_first THEN 0 ELSE cursor) + count

Origin(idx, bytes) ==
    IF idx = 0 THEN "empty"
    ELSE IF idx < FRAME_SIZE THEN "partial"
    ELSE IF bytes > FRAME_SIZE THEN "overrun"
    ELSE "full"

\* line 29: if (!tud_vendor_mounted()) return;
PollNotMounted ==
    /\ poll' = [NoPoll EXCEPT !.kind = "unmounted", !.before = byte_index]
    /\ UNCHANGED <<byte_index, last_packet_time, ms, uptime, idle,
                   run_bytes, run_written, run_firsts, run_origin,
                   fb_cursor>>

\* line 47 moved out of the if of line 36
PollNoDataStamps ==
    /\ poll' = [NoPoll EXCEPT !.kind = "idle", !.before = byte_index]
    /\ last_packet_time' = ms
    /\ idle' = <<0, 0>>
    /\ UNCHANGED <<byte_index, ms, uptime,
                   run_bytes, run_written, run_firsts, run_origin,
                   fb_cursor>>

\* line 36: tud_vendor_available() is 0
PollNoData ==
    /\ poll' = [NoPoll EXCEPT !.kind = "idle", !.before = byte_index]
    /\ UNCHANGED <<byte_index, last_packet_time, ms, uptime, idle,
                   run_bytes, run_written, run_firsts, run_origin,
                   fb_cursor>>

\* lines 36-75: data is available; tud_vendor_read returns nread bytes
PollData(nread) ==
    LET now == ms
        expired == SyncExpired(now, last_packet_time)
        idx == ResetIndex(byte_index, expired)
        bytes0 == IF expired THEN 0 ELSE run_bytes
        written0 == IF expired THEN 0 ELSE run_written
        firsts0 == IF expired THEN 0 ELSE run_firsts
        writes == nread > 0 /\ CanWrite(idx)
        count == IF writes THEN ClampCount(nread, idx) ELSE 0
        first == writes /\ IsFirst(idx)
    IN  /\ bytes0 + nread <= FRAME_SIZE + MaxOverrun
        /\ last_packet_time' = StampTime(now, last_packet_time, nread)
        /\ idle' = <<0, 0>>
        /\ byte_index' = IF writes THEN AdvanceIndex(idx, count) ELSE idx
        /\ run_bytes' = bytes0 + nread
        /\ run_written' = written0 + count
        /\ run_firsts' = firsts0 + (IF first THEN 1 ELSE 0)
        /\ run_origin' = IF expired THEN Origin(byte_index, run_bytes)
                         ELSE run_origin
        /\ fb_cursor' = IF writes THEN SinkCursorAfter(fb_cursor, first, count)
                        ELSE fb_cursor
        /\ poll' = [kind |-> "data", before |-> byte_index, gap |-> idle,
                    sync |-> expired, read |-> nread, sent |-> writes,
                    is_first |-> first, count |-> count,
                    offset |-> IF writes THEN idx ELSE 0,
                    src |-> IF writes THEN bytes0 ELSE 0,
                    dst |-> IF writes /\ ~first THEN fb_cursor ELSE 0,
                    reads |-> ReadCalls(backlog),
                    wrapped |-> U32Less(now, last_packet_time)]
        /\ UNCHANGED <<ms, uptime>>

\* one millisecond passes
Tick ==
    /\ uptime < MaxUptime
    /\ ms' = U32Inc(ms)
    /\ uptime' = uptime + 1
    /\ idle' = U32Inc(idle)
    /\ poll' = NoPoll
    /\ UNCHANGED <<byte_index, last_packet_time,
                   run_bytes, run_written, run_firsts, run_origin,
                   fb_cursor>>

FrameInit ==
    /\ byte_index = 0
    /\ last_packet_time = <<0, 0>>
    /\ ms \in StartTimes
    /\ uptime = 0
    /\ idle = ms
    /\ run_bytes = 0
    /\ run_written = 0
    /\ run_firsts = 0
    /\ run_origin = "startup"
    /\ fb_cursor = 0
    /\ backlog = 0
    /\ poll = NoPoll

\* the host queues one more chunk of BUFFER_SIZE bytes
HostSend ==
    /\ backlog < MaxBacklog
    /\ backlog' = backlog + 1
    /\ UNCHANGED <<byte_index, last_packet_time, ms, uptime, idle,
                   run_bytes, run_written, run_firsts, run_origin,
                   fb_cursor, poll>>

\* chunks the reads of one poll take out of avail waiting chunks
ChunksTaken(avail) ==
    IF ReadCalls(avail) < avail THEN ReadCalls(avail) ELSE avail

\* lines 36-75 with the queue tracked: tud_vendor_available() > 0
DrainPoll ==
    /\ backlog > 0
    /\ PollData(BUFFER_SIZE)
    /\ backlog' = backlog - ChunksTaken(backlog)

\* line 36 with the queue tracked: tud_vendor_available() is 0
DrainIdle ==
    /\ backlog = 0
    /\ PollNoData
    /\ UNCHANGED backlog

\* line 54: tud_vendor_read returns one of the counts of the model
PollDataAny == \E nread \in ReadCounts : PollData(nread)

(***************************************************************************)
(* Command dispatcher: tud_vendor_control_xfer_cb                          *)
(***************************************************************************)
CMD_RESET == 16

CMD_VERSION == 17

CMD_BTNS_ENC == 32

CMD_IO_LEDS == 33

CMD_OLED_BRIGHTNESS == 49

CMD_OLED_INVERTED == 50

\* set_brightness(MIN(request->wValue, 16)): the literal of line 128
BRIGHTNESS_MAX == 16

\* encoder ticks the model lets happen in one behaviour
MaxEncTicks == 2

\* bRequest is a uint8_t
RequestIds == 0..255

\* wValue is a uint16_t; the values the model sends
WValues == {0, 255, 256, 65535}

\* what get_button_flags() may return (bit 0: Btn1, bit 1: Btn2)
ButtonFlags == 0..3

Stages == {"SETUP", "DATA", "ACK"}

VARIABLES
    leds,               \* the mask last given to set_leds
    oled_brightness,    \* the level last given to set_brightness
    oled_inverted,      \* the value last given to set_inverted
    encoder_ticks,      \* the accumulator get_encoder_ticks reads
    enc_events,         \* encoder ticks so far (bounds the model)
    enc_total,          \* sum of the ticks so far
    enc_reported,       \* sum of the encoder_delta replied so far
    ctl                 \* the callback invocation in flight and its outcome

cvars == <<leds, oled_brightness, oled_inverted, encoder_ticks,
           enc_events, enc_total, enc_reported, ctl>>

NoReply == [kind |-> "none", button_flags |-> 0, encoder_delta |-> 0]

NoCall ==
    [kind |-> "none", stage |-> "SETUP", bRequest |-> 0, wValue |-> 0,
     ret |-> TRUE, acks |-> 0, replies |-> 0, reply |-> NoReply,
     hw |-> {}, unreported |-> 0]

\* conversion to int8_t (input_packet_t.encoder_delta, line 15)
ToInt8(x) == LET m == x % 256 IN IF m >= 128 THEN m - 256 ELSE m

\* conversion to uint8_t
ToUint8(x) == x % 256

\* MIN of sys/param.h
MIN(a, b) == IF a < b THEN a ELSE b

\* line 107 without the test of the stage
IsSetupStageAny(stage) == TRUE

\* line 107: if (stage == CONTROL_STAGE_SETUP)
IsSetupStage(stage) == stage = "SETUP"

\* lines 108-138: the switch on request->bRequest
Handler(bRequest) ==
    CASE bRequest = CMD_RESET -> "reset"
      [] bRequest = CMD_VERSION -> "version"
      [] bRequest = CMD_IO_LEDS -> "leds"
      [] bRequest = CMD_BTNS_ENC -> "btns_enc"
      [] bRequest = CMD_OLED_BRIGHTNESS -> "brightness"
      [] bRequest = CMD_OLED_INVERTED -> "inverted"
      [] OTHER -> "default"

\* lines 112, 120, 129, 133: the cases that return tud_control_status(...)
AcknowledgesMissingLeds(h) == h \in {"reset", "brightness", "inverted"}

Acknowledges(h) == h \in {"reset", "leds", "brightness", "inverted"}

\* lines 116, 125: the cases that return tud_control_xfer(...)
Replies(h) == h \in {"version", "btns_enc"}

\* line 137: the default case returns false (STALL)
DefaultReturnTrue == TRUE

DefaultReturn == FALSE

\* what tud_control_status and tud_control_xfer return: the reply sink of the
\* specification accepts every acknowledgment and reply
TransferAccepted == TRUE

\* line 128: the argument of set_brightness
BrightnessUnclamped(wValue) == ToUint8(wValue)

BrightnessArg(wValue) == ToUint8(MIN(wValue, BRIGHTNESS_MAX))

\* line 119 with the mask cut to its low byte
LedsArgLowByte(wValue) == ToUint8(wValue)

\* line 119: the argument of set_leds
LedsArg(wValue) == wValue

\* line 132: the argument of set_inverted
InvertedArg(wValue) == wValue

\* lines 110-111 with the reset also starting the frame over
IndexAfterCommandReset(h, idx) == IF h = "reset" THEN 0 ELSE idx

\* lines 104-141: the callback assigns neither byte_index nor
\* last_packet_time, whatever the command
IndexAfterCommand(h, idx) == idx

\* line 124: the argument of get_encoder_ticks
EncoderResetArgFalse == FALSE

EncoderResetArg == TRUE

\* get_encoder_ticks(reset): the accumulated ticks, cleared when reset is true
EncoderAfterRead(acc, reset) == IF reset THEN 0 ELSE acc

\* ui_init(): each register of the board is left alone or back at its
\* power-on value
UiInitValues(v) == {v, 0}

\* lines 101-142
tud_vendor_control_xfer_cb(stage, bRequest, wValue) ==
    LET h == IF IsSetupStage(stage) THEN Handler(bRequest) ELSE "later"
        acks == IF Acknowledges(h) THEN 1 ELSE 0
        replies == IF Replies(h) THEN 1 ELSE 0
        ret == IF h = "later" THEN TRUE
               ELSE IF h = "default" THEN DefaultReturn
               ELSE IF acks + replies > 0 THEN TransferAccepted
               ELSE TRUE
    IN  /\ \E buttons \in (IF h = "btns_enc" THEN ButtonFlags ELSE {0}) :
           \E l \in (IF h = "reset" THEN UiInitValues(leds) ELSE {leds}) :
           \E b \in (IF h = "reset" THEN UiInitValues(oled_brightness)
                     ELSE {oled_brightness}) :
           \E i \in (IF h = "reset" THEN UiInitValues(oled_inverted)
                     ELSE {oled_inverted}) :
           \E e \in (IF h = "reset" THEN UiInitValues(encoder_ticks)
                     ELSE {encoder_ticks}) :
            /\ leds' = IF h = "leds" THEN LedsArg(wValue) ELSE l
            /\ oled_brightness' =
                   IF h = "brightness" THEN BrightnessArg(wValue) ELSE b
            /\ oled_inverted' =
                   IF h = "inverted" THEN InvertedArg(wValue) ELSE i
            /\ encoder_ticks' =
                   IF h = "btns_enc"
                   THEN EncoderAfterRead(encoder_ticks, EncoderResetArg)
                   ELSE e
            /\ enc_total' = enc_total - (encoder_ticks - e)
            /\ enc_reported' =
                   IF h = "btns_enc"
                   THEN enc_reported + ToInt8(encoder_ticks)
                   ELSE enc_reported
            /\ ctl' = [kind |-> "call", stage |-> stage,
                       bRequest |-> bRequest, wValue |-> wValue,
                       ret |-> ret, acks |-> acks, replies |-> replies,
                       reply |->
                           IF h = "btns_enc"
                           THEN [kind |-> "packet", button_flags |-> buttons,
                                 encoder_delta |-> ToInt8(encoder_ticks)]
                           ELSE IF h = "version"
                           THEN [NoReply EXCEPT !.kind = "version"]
                           ELSE NoReply,
                       hw |-> CASE h = "reset" -> {"ui_init"}
                                [] h = "leds" -> {"set_leds"}
                                [] h = "btns_enc" ->
                                       {"get_button_flags", "get_encoder_ticks"}
                                [] h = "brightness" -> {"set_brightness"}
                                [] h = "inverted" -> {"set_inverted"}
                                [] OTHER -> {},
                       unreported |-> enc_total - enc_reported]
        /\ byte_index' = IndexAfterCommand(h, byte_index)
        /\ UNCHANGED <<enc_events, last_packet_time, ms, uptime, idle,
                       run_bytes, run_written, run_firsts, run_origin,
                       fb_cursor, backlog, poll>>

\* the transport invokes the callback for a stage of a control request
ControlCallback ==
    /\ ctl.kind = "none"
    /\ \E stage \in Stages, bRequest \in RequestIds, wValue \in WValues :
           tud_vendor_control_xfer_cb(stage, bRequest, wValue)

\* bRequest values of the interleaved runs: the six commands and one other
MixIds ==
    {CMD_RESET, CMD_VERSION, CMD_BTNS_ENC, CMD_IO_LEDS, CMD_OLED_BRIGHTNESS,
     CMD_OLED_INVERTED, 0}

\* a SETUP invocation between two polls of the main loop
MixCallback ==
    /\ ctl.kind = "none"
    /\ \E bRequest \in MixIds :
           tud_vendor_control_xfer_cb("SETUP", bRequest, 0)

\* the transport is done with the invocation
ControlDone ==
    /\ ctl.kind = "call"
    /\ ctl' = NoCall
    /\ UNCHANGED <<leds, oled_brightness, oled_inverted, encoder_ticks,
                   enc_events, enc_total, enc_reported>>

\* the encoder moves one detent, either way
EncoderTick ==
    /\ ctl.kind = "none"
    /\ enc_events < MaxEncTicks
    /\ \E d \in {-1, 1} :
        /\ encoder_ticks' = encoder_ticks + d
        /\ enc_total' = enc_total + d
    /\ enc_events' = enc_events + 1
    /\ UNCHANGED <<leds, oled_brightness, oled_inverted, enc_reported, ctl>>

CmdInit ==
    /\ leds = 0
    /\ oled_brightness = 0
    /\ oled_inverted = 0
    /\ encoder_ticks = 0
    /\ enc_events = 0
    /\ enc_total = 0
    /\ enc_reported = 0
    /\ ctl = NoCall

(***************************************************************************)
(* Specifications                                                          *)
(***************************************************************************)
vars == <<fvars, cvars>>

Init == FrameInit /\ CmdInit

\* the frame assembler under its polling loop and the clock
Next ==
    \/ PollNotMounted /\ UNCHANGED <<backlog, cvars>>
    \/ PollNoData /\ UNCHANGED <<backlog, cvars>>
    \/ PollDataAny /\ UNCHANGED <<backlog, cvars>>
    \/ Tick /\ UNCHANGED <<backlog, cvars>>

Spec == Init /\ [][Next]_vars

\* the command dispatcher under the control requests of the host
CmdStep ==
    \/ ControlCallback
    \/ ControlDone /\ UNCHANGED fvars
    \/ EncoderTick /\ UNCHANGED fvars

CmdSpec == Init /\ [][CmdStep]_vars

\* the frame assembler draining a queue of chunks the host fills
DrainInit == Init /\ ms = <<0, 0>>

DrainStep ==
    \/ HostSend /\ UNCHANGED cvars
    \/ DrainPoll /\ UNCHANGED cvars
    \/ DrainIdle /\ UNCHANGED cvars
    \/ PollNotMounted /\ UNCHANGED <<backlog, cvars>>
    \/ Tick /\ UNCHANGED <<backlog, cvars>>

DrainSpec == DrainInit /\ [][DrainStep]_vars

\* polls of the frame assembler interleaved with control requests
MixStep ==
    \/ PollData(BUFFER_SIZE) /\ UNCHANGED <<backlog, cvars>>
    \/ PollNoData /\ UNCHANGED <<backlog, cvars>>
    \/ Tick /\ UNCHANGED <<backlog, cvars>>
    \/ MixCallback
    \/ ControlDone /\ UNCHANGED fvars

MixSpec == DrainInit /\ [][MixStep]_vars

(***************************************************************************)
(* Properties of the frame assembler (checked under Spec)                  *)
(***************************************************************************)
\* C1: byte_index stays within [0, FRAME_SIZE]; every send_fb call issued by
\* vendor_task carries 1 <= count <= 64 bytes and ends at or before
\* FRAME_SIZE; a chunk that would cross the frame boundary is cut to what is
\* left of the frame, the rest is dropped and byte_index stops at FRAME_SIZE.
C1_WriteWithinFrame ==
    /\ byte_index \in 0..FRAME_SIZE
    /\ poll.sent =>
        /\ 1 <= poll.count
        /\ poll.count <= BUFFER_SIZE
        /\ poll.offset + poll.count <= FRAME_SIZE
        /\ poll.count = MIN(poll.read, FRAME_SIZE - poll.offset)
        /\ byte_index = poll.offset + poll.count
        /\ run_bytes - run_written = poll.read - poll.count
        /\ poll.sync => poll.src = 0

\* a chunk of 48 or 64 bytes met fewer bytes left in a frame under way
C1_Witness ==
    /\ poll.sent
    /\ poll.offset > 0
    /\ poll.count < poll.read
    /\ byte_index = FRAME_SIZE

\* C2: within one run of chunks polled with gaps <= SYNC_TIMEOUT_MS (a run
\* begins at start-up or at a resync), the bytes written to the sink never
\* exceed FRAME_SIZE, and exactly one send_fb call of the run is tagged
\* is_first: none before the first byte of the run was read, one from then on.
C2_OneFirstPerRun ==
    /\ run_written <= FRAME_SIZE
    /\ run_firsts = (IF run_bytes > 0 THEN 1 ELSE 0)
    /\ poll.sent => (poll.is_first <=> run_written = poll.count)

\* the run begun at start-up (no resync yet) carried more than a frame
C2_Witness ==
    /\ run_origin = "startup"
    /\ run_bytes > FRAME_SIZE
    /\ run_firsts = 1
    /\ poll.kind = "data"
    /\ ~poll.sent

\* C3: a poll that finds data more than SYNC_TIMEOUT_MS after the previous
\* poll that found data resets the offset whatever it was: its write, or else
\* the next write, is tagged is_first and starts at offset 0.  A gap of
\* exactly SYNC_TIMEOUT_MS does not resync: the offset is kept.
C3_ResyncAfterGap ==
    /\ byte_index = run_written
    /\ poll.kind = "data" =>
        /\ U32Gt(poll.gap, SYNC_TIMEOUT_MS) =>
            /\ poll.sync
            /\ run_bytes = poll.read
            /\ poll.sent => poll.is_first /\ poll.offset = 0
            /\ ~poll.sent => byte_index = 0
        /\ ~U32Gt(poll.gap, SYNC_TIMEOUT_MS) =>
            /\ ~poll.sync
            /\ poll.sent => poll.offset = poll.before
            /\ ~poll.sent => byte_index = poll.before

\* part of a frame, 5 ms of silence, then a chunk written at offset 0
C3_Witness ==
    /\ poll.kind = "data"
    /\ poll.gap = <<0, SYNC_TIMEOUT_MS + 1>>
    /\ poll.before > 0
    /\ poll.before < FRAME_SIZE
    /\ poll.sent
    /\ poll.is_first
    /\ poll.offset = 0
    /\ byte_index = poll.count

\* C4: with byte_index at FRAME_SIZE, a poll that finds data no more than
\* SYNC_TIMEOUT_MS after the previous one calls send_fb not at all and leaves
\* byte_index at FRAME_SIZE; nothing but last_packet_time changes, however
\* long the host keeps streaming.
C4_FullFrameDrops ==
    (/\ poll.kind = "data"
     /\ poll.before = FRAME_SIZE
     /\ ~U32Gt(poll.gap, SYNC_TIMEOUT_MS)) =>
        /\ ~poll.sent
        /\ poll.count = 0
        /\ byte_index = FRAME_SIZE
        /\ run_written = FRAME_SIZE
        /\ last_packet_time = ms

\* a 64-byte chunk polled exactly 4 ms after the frame was filled
C4_Witness ==
    /\ poll.kind = "data"
    /\ poll.before = FRAME_SIZE
    /\ poll.gap = <<0, SYNC_TIMEOUT_MS>>
    /\ poll.read = BUFFER_SIZE
    /\ ~poll.sent
    /\ run_bytes > FRAME_SIZE + BUFFER_SIZE

\* C5: a run that carried L bytes so far has forwarded min(L, FRAME_SIZE)
\* bytes to the sink and has byte_index at min(L, FRAME_SIZE).
C5_ForwardedIsMin ==
    /\ run_written = MIN(run_bytes, FRAME_SIZE)
    /\ byte_index = MIN(run_bytes, FRAME_SIZE)

\* exactly FRAME_SIZE bytes, the last of them a whole 64-byte chunk
C5_Witness ==
    /\ run_bytes = FRAME_SIZE
    /\ byte_index = FRAME_SIZE
    /\ run_written = FRAME_SIZE
    /\ poll.sent
    /\ poll.count = BUFFER_SIZE
    /\ poll.offset = FRAME_SIZE - BUFFER_SIZE

\* C10: whatever the assembler held when the host fell silent for more than
\* SYNC_TIMEOUT_MS (nothing, part of a frame, a full frame, a frame with
\* bytes dropped), the run begun by the resync writes each byte at its own
\* position of the frame, the first write tagged is_first and no other, and
\* once FRAME_SIZE bytes were sent all of them are in the sink and
\* byte_index is FRAME_SIZE.
C10_SelfHeals ==
    run_origin # "startup" =>
        /\ poll.sent =>
            /\ poll.offset = poll.src
            /\ poll.is_first <=> poll.src = 0
        /\ run_bytes <= FRAME_SIZE => byte_index = run_bytes
        /\ run_bytes = FRAME_SIZE =>
            /\ run_written = FRAME_SIZE
            /\ run_firsts = 1

\* a frame was overrun, the host fell silent, and a whole frame followed
C10_Witness ==
    /\ run_origin = "overrun"
    /\ run_bytes = FRAME_SIZE
    /\ byte_index = FRAME_SIZE
    /\ poll.sent

\* C11: a vendor_task call that finds the device not mounted, or no data
\* available, changes neither byte_index nor last_packet_time, reads nothing
\* from the transport and hands nothing to the sink.
C11_IdlePollNoEffect ==
    [][poll'.kind \in {"unmounted", "idle"} =>
        /\ UNCHANGED <<byte_index, last_packet_time, fb_cursor,
                       run_bytes, run_written>>
        /\ poll'.reads = 0
        /\ poll'.read = 0
        /\ ~poll'.sent]_vars

\* a poll without data in the middle of a frame, after more than
\* SYNC_TIMEOUT_MS of silence: nothing was reset
C11_Witness ==
    /\ poll.kind = "idle"
    /\ byte_index > 0
    /\ byte_index < FRAME_SIZE
    /\ U32Gt(idle, SYNC_TIMEOUT_MS)
    /\ U32Gt(U32Sub(ms, last_packet_time), SYNC_TIMEOUT_MS)

\* C12: byte_index decreases only in a poll that finds data more than
\* SYNC_TIMEOUT_MS after last_packet_time, where it starts over from 0; a
\* write tagged is_first is the first write since start-up or the write of a
\* resyncing poll, never a write in the middle of a run.
C12_ResetOnlyOnTimeout ==
    [][/\ byte_index' < byte_index =>
           /\ poll'.kind = "data"
           /\ poll'.sync
           /\ U32Gt(U32Sub(ms', last_packet_time), SYNC_TIMEOUT_MS)
           /\ byte_index' = poll'.count
       /\ (poll' # poll /\ poll'.sent /\ poll'.is_first) =>
           /\ poll'.offset = 0
           /\ poll'.sync \/ run_written = 0]_vars

\* a full frame was started over by a chunk after the timeout
C12_Witness ==
    /\ poll.kind = "data"
    /\ poll.sync
    /\ poll.before = FRAME_SIZE
    /\ poll.sent
    /\ byte_index = poll.count

\* C13: every poll that finds data leaves last_packet_time at now, also when
\* the read returns 0 bytes or the frame is full; a read of 0 bytes hands
\* nothing to the sink and does not advance byte_index, which is 0 if the
\* poll resynced and what it was otherwise.
C13_StampOnEveryDataPoll ==
    poll.kind = "data" =>
        /\ last_packet_time = ms
        /\ idle = <<0, 0>>
        /\ poll.read = 0 =>
            /\ ~poll.sent
            /\ poll.count = 0
            /\ byte_index = (IF poll.sync THEN 0 ELSE poll.before)

\* a read of 0 bytes after the timeout reset a frame under way
C13_Witness ==
    /\ poll.kind = "data"
    /\ poll.read = 0
    /\ poll.sync
    /\ poll.before > 0
    /\ byte_index = 0
    /\ last_packet_time = ms

\* C14: one call of vendor_task makes at most one tud_vendor_read of at most
\* 64 bytes and at most one send_fb of at most what was read, and takes at
\* most one chunk out of the transport: a backlog of N chunks takes N polls.
\* (Checked under DrainSpec, where the queue of the transport is tracked.)
C14_OneChunkPerPoll ==
    [][/\ poll'.reads <= 1
       /\ poll'.read <= BUFFER_SIZE
       /\ poll'.count <= poll'.read
       /\ backlog' >= backlog - 1
       /\ backlog' < backlog => poll'.kind = "data" /\ poll'.reads = 1
       /\ run_written' <= run_written + BUFFER_SIZE
       /\ (poll'.kind = "data" /\ ~poll'.sync) =>
             fb_cursor' <= fb_cursor + BUFFER_SIZE]_vars

\* one poll took one chunk of a full queue and left the others waiting
C14_Witness ==
    /\ poll.kind = "data"
    /\ poll.reads = 1
    /\ poll.sent
    /\ poll.count = BUFFER_SIZE
    /\ run_bytes = BUFFER_SIZE
    /\ uptime = 0
    /\ backlog = MaxBacklog - 1

\* C16: a sink that starts over at every is_first write and appends the
\* count bytes of every write is, after each write, where byte_index is; each
\* write lands where the sink stood and carries the bytes of that position
\* of the run, so the writes of a run are its accepted prefix in order.
C16_SinkCursorTracksIndex ==
    poll.sent =>
        /\ fb_cursor = byte_index
        /\ fb_cursor = poll.offset + poll.count
        /\ poll.dst = poll.offset
        /\ poll.src = poll.offset
        /\ fb_cursor = run_written

\* the second write of a run begun while the sink stood elsewhere
C16_Witness ==
    /\ poll.sent
    /\ ~poll.is_first
    /\ poll.dst = 48
    /\ run_origin = "partial"
    /\ fb_cursor = byte_index

\* C19: the test of line 43 on the unsigned difference decides by the real
\* time passed since last_packet_time was set: a poll that finds data resets
\* byte_index exactly when more than SYNC_TIMEOUT_MS passed, also when the
\* counter wrapped in between and now is below last_packet_time.
C19_WrapSafeTimeout ==
    /\ U32Sub(ms, last_packet_time) = idle
    /\ poll.kind = "data" =>
        /\ poll.sync <=> U32Gt(poll.gap, SYNC_TIMEOUT_MS)
        /\ (poll.sync /\ poll.read = 0) => byte_index = 0
        /\ ~poll.sync => byte_index >= poll.before

\* the counter wrapped during exactly SYNC_TIMEOUT_MS of silence: no resync
C19_Witness ==
    /\ poll.kind = "data"
    /\ poll.wrapped
    /\ poll.gap = <<0, SYNC_TIMEOUT_MS>>
    /\ ~poll.sync
    /\ poll.before > 0
    /\ poll.sent
    /\ poll.offset = poll.before

(***************************************************************************)
(* Properties of the command dispatcher (checked under CmdSpec)            *)
(***************************************************************************)
KnownIds ==
    {CMD_RESET, CMD_VERSION, CMD_BTNS_ENC, CMD_IO_LEDS,
     CMD_OLED_BRIGHTNESS, CMD_OLED_INVERTED}

SetupCall == ctl.kind = "call" /\ ctl.stage = "SETUP"

\* C6: the SETUP-stage dispatch of a bRequest outside the six command ids
\* returns false (STALL): no collaborator is called, no hardware state
\* changes, neither tud_control_status nor tud_control_xfer is invoked; and a
\* dispatch that acknowledged with no data never returns false.
C6_UnknownStalls ==
    [][(ctl'.kind = "call" /\ ctl'.stage = "SETUP") =>
        /\ ctl'.bRequest \notin KnownIds =>
            /\ ctl'.ret = FALSE
            /\ ctl'.acks = 0
            /\ ctl'.replies = 0
            /\ ctl'.reply = NoReply
            /\ ctl'.hw = {}
            /\ UNCHANGED <<leds, oled_brightness, oled_inverted,
                           encoder_ticks>>
        /\ ctl'.acks > 0 => ctl'.ret = TRUE]_vars

\* an unknown id next to a known one was refused
C6_Witness ==
    /\ SetupCall
    /\ ctl.bRequest = CMD_OLED_BRIGHTNESS - 1
    /\ ctl.ret = FALSE
    /\ leds = 65535

\* C7: the SETUP-stage dispatch of a request does exactly one of: call
\* tud_control_status, call tud_control_xfer, return false.  Reset, set-LEDs,
\* set-brightness and set-inversion acknowledge with no data; version and
\* read-buttons/encoder reply with a payload; every other id is refused.  The
\* invocations for the later stages add none of the three.
C7_ExactlyOneOutcome ==
    ctl.kind = "call" =>
        /\ ctl.stage = "SETUP" =>
            /\ ctl.acks + ctl.replies + (IF ctl.ret THEN 0 ELSE 1) = 1
            /\ ctl.bRequest \in {CMD_RESET, CMD_IO_LEDS, CMD_OLED_BRIGHTNESS,
                                 CMD_OLED_INVERTED} =>
                   ctl.acks = 1 /\ ctl.reply.kind = "none"
            /\ ctl.bRequest = CMD_VERSION =>
                   ctl.replies = 1 /\ ctl.reply.kind = "version"
            /\ ctl.bRequest = CMD_BTNS_ENC =>
                   ctl.replies = 1 /\ ctl.reply.kind = "packet"
            /\ ctl.bRequest \notin KnownIds => ~ctl.ret
        /\ ctl.stage # "SETUP" =>
            ctl.acks = 0 /\ ctl.replies = 0 /\ ctl.ret

\* set-LEDs was acknowledged with no data
C7_Witness ==
    /\ SetupCall
    /\ ctl.bRequest = CMD_IO_LEDS
    /\ ctl.acks = 1
    /\ ctl.replies = 0
    /\ ctl.ret
    /\ leds = 256

\* C8: the accumulator holds exactly the ticks no reply has reported yet;
\* a 0x20 request replies those ticks as encoder_delta and leaves the
\* accumulator at 0, so each tick is reported in exactly one reply.
C8_TicksReportedOnce ==
    /\ encoder_ticks = enc_total - enc_reported
    /\ (SetupCall /\ ctl.bRequest = CMD_BTNS_ENC) =>
        /\ ctl.reply.encoder_delta = ctl.unreported
        /\ encoder_ticks = 0
        /\ ctl.hw = {"get_button_flags", "get_encoder_ticks"}

\* one tick in all, reported as 1 by an earlier reply; this reply says 0
C8_Witness ==
    /\ SetupCall
    /\ ctl.bRequest = CMD_BTNS_ENC
    /\ enc_events = 1
    /\ enc_total = 1
    /\ enc_reported = 1
    /\ ctl.reply.encoder_delta = 0

\* C9: command 0x31 applies min(wValue, 16) as the brightness and is
\* acknowledged; the brightness applied is never above 16.
C9_BrightnessClamped ==
    /\ oled_brightness <= BRIGHTNESS_MAX
    /\ (SetupCall /\ ctl.bRequest = CMD_OLED_BRIGHTNESS) =>
        /\ oled_brightness = MIN(ctl.wValue, BRIGHTNESS_MAX)
        /\ ctl.hw = {"set_brightness"}
        /\ ctl.acks = 1
        /\ ctl.ret

\* wValue = 255 applied 16
C9_Witness ==
    /\ SetupCall
    /\ ctl.bRequest = CMD_OLED_BRIGHTNESS
    /\ ctl.wValue = 255
    /\ oled_brightness = BRIGHTNESS_MAX

\* an invocation of the callback, as a step: ctl goes from none to the call
CallStep == ctl.kind = "none" /\ ctl'.kind = "call"

\* C15: at the SETUP stage each recognised command touches only its own
\* collaborator: CMD_IO_LEDS gives set_leds the whole 16-bit wValue,
\* CMD_OLED_BRIGHTNESS only sets the brightness, CMD_OLED_INVERTED only the
\* inversion, CMD_VERSION touches nothing, CMD_BTNS_ENC only reads the buttons
\* and consumes the encoder ticks; the LED mask, the brightness and the
\* inversion change in no other step but their own set command and reset, so
\* each keeps the value of its latest set command until the next one.
C15_OwnCollaboratorOnly ==
    [][/\ (CallStep /\ ctl'.stage = "SETUP") =>
            /\ ctl'.bRequest = CMD_IO_LEDS =>
                  /\ leds' = ctl'.wValue
                  /\ ctl'.hw = {"set_leds"}
                  /\ UNCHANGED <<oled_brightness, oled_inverted,
                                 encoder_ticks>>
            /\ ctl'.bRequest = CMD_OLED_BRIGHTNESS =>
                  /\ oled_brightness' = MIN(ctl'.wValue, BRIGHTNESS_MAX)
                  /\ ctl'.hw = {"set_brightness"}
                  /\ UNCHANGED <<leds, oled_inverted, encoder_ticks>>
            /\ ctl'.bRequest = CMD_OLED_INVERTED =>
                  /\ oled_inverted' = ctl'.wValue
                  /\ ctl'.hw = {"set_inverted"}
                  /\ UNCHANGED <<leds, oled_brightness, encoder_ticks>>
            /\ ctl'.bRequest = CMD_VERSION =>
                  /\ ctl'.hw = {}
                  /\ UNCHANGED <<leds, oled_brightness, oled_inverted,
                                 encoder_ticks>>
            /\ ctl'.bRequest = CMD_BTNS_ENC =>
                  /\ ctl'.hw = {"get_button_flags", "get_encoder_ticks"}
                  /\ encoder_ticks' = 0
                  /\ UNCHANGED <<leds, oled_brightness, oled_inverted>>
       /\ leds' # leds =>
            /\ CallStep
            /\ ctl'.stage = "SETUP"
            /\ ctl'.bRequest \in {CMD_IO_LEDS, CMD_RESET}
       /\ oled_brightness' # oled_brightness =>
            /\ CallStep
            /\ ctl'.stage = "SETUP"
            /\ ctl'.bRequest \in {CMD_OLED_BRIGHTNESS, CMD_RESET}
       /\ oled_inverted' # oled_inverted =>
            /\ CallStep
            /\ ctl'.stage = "SETUP"
            /\ ctl'.bRequest \in {CMD_OLED_INVERTED, CMD_RESET}]_vars

\* set-LEDs with all 16 bits, with a brightness and an inversion set earlier
\* still in place
C15_Witness ==
    /\ ctl.kind = "call"
    /\ ctl.stage = "SETUP"
    /\ ctl.bRequest = CMD_IO_LEDS
    /\ ctl.wValue = 65535
    /\ leds = 65535
    /\ oled_brightness = BRIGHTNESS_MAX
    /\ oled_inverted = 256

\* C17: an invocation for a stage after SETUP calls no collaborator and no
\* reply primitive, changes nothing of the board and returns true, whatever
\* bRequest is; collaborators and reply primitives are called in SETUP
\* invocations only, so the ticks of the encoder are not consumed twice.
C17_LaterStagesInert ==
    [][/\ (CallStep /\ ctl'.stage # "SETUP") =>
            /\ ctl'.ret
            /\ ctl'.acks = 0
            /\ ctl'.replies = 0
            /\ ctl'.reply = NoReply
            /\ ctl'.hw = {}
            /\ UNCHANGED <<leds, oled_brightness, oled_inverted,
                           encoder_ticks, enc_total, enc_reported>>
       /\ (ctl'.kind = "call"
             /\ (ctl'.hw # {} \/ ctl'.acks + ctl'.replies > 0)) =>
            ctl'.stage = "SETUP"]_vars

\* the ACK stage of a read of the encoder, after a SETUP stage that reported
\* one tick: the tick that came since is still waiting
C17_Witness ==
    /\ ctl.kind = "call"
    /\ ctl.stage = "ACK"
    /\ ctl.bRequest = CMD_BTNS_ENC
    /\ ctl.ret
    /\ enc_reported = 1
    /\ encoder_ticks = 1
    /\ ctl.unreported = 1

\* C18: no invocation of the callback, the reset command included, changes
\* byte_index or last_packet_time: with control requests interleaved with
\* polls in any order, they change in polls that found data only, and a
\* reset in the middle of a frame leaves byte_index where it was.
\* (Checked under MixSpec.)
C18_CommandsLeaveFrameState ==
    [][/\ CallStep =>
            UNCHANGED <<byte_index, last_packet_time, fb_cursor,
                        run_bytes, run_written, run_firsts>>
       /\ (byte_index' # byte_index
             \/ last_packet_time' # last_packet_time) =>
            /\ poll'.kind = "data"
            /\ ctl' = ctl]_vars

\* a reset between the chunks of a frame
C18_Witness ==
    /\ ctl.kind = "call"
    /\ ctl.stage = "SETUP"
    /\ ctl.bRequest = CMD_RESET
    /\ "ui_init" \in ctl.hw
    /\ poll.kind = "data"
    /\ poll.sent
    /\ byte_index = 3 * BUFFER_SIZE
    /\ run_firsts = 1

====
